---- MODULE Spec2Model ----
(***************************************************************************)
(* Model of the Go game session API: the Game document (models/Game.ts)    *)
(* and the request handlers of routes/games (create, get, join, ready,     *)
(* move, pass, resign, delete).                                            *)
(* The match record and the player document (models/Player.ts) with the    *)
(* match end and deletion routes and the account routes follow the game    *)
(* handlers, each in a specification of its own.                           *)
(*                                                                         *)
(* Every handler is an async function: `await Game.findOne(...)` reads the *)
(* stored document into a private copy, the synchronous code that follows  *)
(* checks and mutates that copy, `await game.save()` writes the modified   *)
(* paths back, and the code after it emits a socket event and answers.     *)
(* The awaits are the only points where other requests interleave, so a    *)
(* handler is modelled by one action per database round trip (Find,        *)
(* Write) and one for the continuation that emits and answers (Done).      *)
(*                                                                         *)
(* game.save() is Mongoose's Document.save: it sends the modified paths    *)
(* only.  An array push is a $push that increments the version key __v     *)
(* without testing it; a $set below an array index tests __v without       *)
(* incrementing it; a $set of a whole array tests and increments it; a     *)
(* $set of a plain path does neither.  A failed test rejects the save      *)
(* (VersionError), which the handlers' catch turns into a 500 answer.      *)
(***************************************************************************)
EXTENDS Integers, Sequences, FiniteSets, TLC

VARIABLES
    games,    \* the games collection: game id -> stored document, NoDoc or Gone
    reqs,     \* the requests in flight: slot -> Idle or the handler's locals
    resp,     \* the answer the last step sent (res.status(..).json(..)), or NoAnswer
    emitted,  \* the socket event the last step emitted (io.emit), or NoEvent
    ledger,   \* history variable: game id -> board layout after each stored ply
    match,    \* the matches collection: match id -> stored document or NoMatch
    accounts  \* the players collection: player id -> stored document or NoPlayer

vars == <<games, reqs, resp, emitted, ledger, match, accounts>>

-----------------------------------------------------------------------------
(* Bounds *)

BoardSize == 2      \* side of the board (the program's 9, 13, 19 scaled down)
MaxInFlight == 2    \* requests in flight at once
MaxPlies == 1       \* stored move-history entries, concurrent specification
MaxVersion == 3     \* cap of the version key __v, concurrent specification
MaxPliesPlay == 3   \* stored move-history entries, play specification
MaxPliesSerial == 4     \* stored move-history entries, serial specification
MaxVersionSerial == 6   \* cap of the version key __v, serial specification
MaxScore == 2       \* largest final score a request carries
MaxGames == 4       \* games counted in a player's statistics, statistics specification
MaxGamesMatch == 2  \* games counted in a player's statistics, match specification

Players == {"p1", "p2", "p3"}
Creators == {"p1"}      \* the players who create games
GameIds == {"g1", "g2"}
MatchIds == {"m1", "m2"}
NoMatch == [status |-> "nomatch"]   \* no match document of that id
NoPlayer == [status |-> "noplayer"] \* no player document of that id
Slots == 1..MaxInFlight

NoDoc == [status |-> "nodoc"]   \* no document of that id was ever inserted
Gone == [status |-> "gone"]     \* the document was deleted
null == "null"

Coord == 0..(BoardSize - 1)
\* the coordinates a request may carry: the validators' result is never read,
\* so values outside the board reach makeMove
CoordInput == 0..BoardSize

IsDoc(d) == d # NoDoc /\ d # Gone

-----------------------------------------------------------------------------
(* models/Game.ts *)

Opp(color) == IF color = "black" THEN "white" ELSE "black"

\* gameSchema.methods.initializeBoard: board[y][x], every cell empty with
\* liberties 4, then 3 on the four edges, then 2 in the four corners
initializeBoard(size) ==
    [y \in 0..(size - 1) |->
        [x \in 0..(size - 1) |->
            [stone |-> null,
             liberties |->
                IF (y = 0 \/ y = size - 1) /\ (x = 0 \/ x = size - 1) THEN 2
                ELSE IF y = 0 \/ y = size - 1 \/ x = 0 \/ x = size - 1 THEN 3
                ELSE 4]]]

\* the document `new Game({...})` builds in POST / before addPlayer
NewGame(g, p) ==
    [gameId |-> g,
     status |-> "waiting",
     players |-> << >>,
     boardSize |-> BoardSize,
     currentTurn |-> "black",
     moveCount |-> 0,
     lastMove |-> [x |-> 0 - 1, y |-> 0 - 1, color |-> null],
     board |-> << >>,
     capturedStones |-> [black |-> 0, white |-> 0],
     moveHistory |-> << >>,
     consecutivePasses |-> 0,
     suicideAllowed |-> FALSE,
     koRule |-> "standard",
     createdBy |-> p,
     started |-> FALSE,
     v |-> 0]

\* every seat given black, whatever the seating order
NewSeatBlack(doc, p) == [playerId |-> p, color |-> "black", isReady |-> FALSE]

\* gameSchema.methods.addPlayer, after its 'Game is full' test: the entry pushed
NewSeat(doc, p) ==
    [playerId |-> p,
     color |-> IF Len(doc.players) = 0 THEN "black" ELSE "white",
     isReady |-> FALSE]

addPlayerThrows(doc) == Len(doc.players) >= 2

addPlayer(doc, p) == [doc EXCEPT !.players = Append(@, NewSeat(doc, p))]

\* game.players.find(p => p.playerId.toString() === req.player._id.toString()):
\* the index of the first seat of p, 0 when there is none
SeatOf(doc, p) ==
    IF \E i \in 1..Len(doc.players) : doc.players[i].playerId = p
    THEN CHOOSE i \in 1..Len(doc.players) :
            /\ doc.players[i].playerId = p
            /\ \A j \in 1..(i - 1) : doc.players[j].playerId # p
    ELSE 0

\* makeMove without its 'Position already occupied' test
makeMoveErrorNoOccupied(doc, x, y, color) ==
    IF doc.status # "active" THEN "Game is not active"
    ELSE IF doc.currentTurn # color THEN "Not your turn"
    ELSE IF x < 0 \/ x >= doc.boardSize \/ y < 0 \/ y >= doc.boardSize
        THEN "Invalid coordinates"
    ELSE "ok"

\* gameSchema.methods.makeMove: the error it throws, "ok" when it throws none
makeMoveError(doc, x, y, color) ==
    IF doc.status # "active" THEN "Game is not active"
    ELSE IF doc.currentTurn # color THEN "Not your turn"
    ELSE IF x < 0 \/ x >= doc.boardSize \/ y < 0 \/ y >= doc.boardSize
        THEN "Invalid coordinates"
    ELSE IF doc.board[y][x].stone # null THEN "Position already occupied"
    ELSE "ok"

MoveEntry(p, x, y, color) ==
    [playerId |-> p, color |-> color, x |-> x, y |-> y,
     capturedStones |-> << >>, pass |-> FALSE]

\* makeMove leaving the consecutive-pass counter as it is
makeMoveKeepPasses(doc, p, x, y, color) ==
    [doc EXCEPT
        !.moveHistory = Append(@, MoveEntry(p, x, y, color)),
        !.board[y][x].stone = color,
        !.moveCount = @ + 1,
        !.currentTurn = Opp(color),
        !.lastMove = [x |-> x, y |-> y, color |-> color]]

\* gameSchema.methods.makeMove, past its four tests
makeMove(doc, p, x, y, color) ==
    [doc EXCEPT
        !.moveHistory = Append(@, MoveEntry(p, x, y, color)),
        !.board[y][x].stone = color,
        !.moveCount = @ + 1,
        !.currentTurn = Opp(color),
        !.lastMove = [x |-> x, y |-> y, color |-> color],
        !.consecutivePasses = 0]

\* gameSchema.methods.passTurn: the error it throws, "ok" when it throws none
passTurnError(doc, color) ==
    IF doc.status # "active" THEN "Game is not active"
    ELSE IF doc.currentTurn # color THEN "Not your turn"
    ELSE "ok"

PassEntry(p, color) ==
    [playerId |-> p, color |-> color, x |-> 0 - 1, y |-> 0 - 1,
     capturedStones |-> << >>, pass |-> TRUE]

\* gameSchema.methods.passTurn, past its two tests
passTurn(doc, p, color) ==
    [doc EXCEPT
        !.moveHistory = Append(@, PassEntry(p, color)),
        !.currentTurn = Opp(color),
        !.consecutivePasses = @ + 1,
        !.status = IF doc.consecutivePasses + 1 >= 2 THEN "completed" ELSE @]

AllReady(doc) == \A i \in 1..Len(doc.players) : doc.players[i].isReady

\* gameSchema.methods.startGame: whether it throws
startGameThrows(doc) == Len(doc.players) # 2 \/ ~AllReady(doc)

\* gameSchema.methods.startGame, past its two tests
startGame(doc) ==
    [doc EXCEPT
        !.status = "active",
        !.started = TRUE,
        !.board = initializeBoard(doc.boardSize)]

\* gameSchema.methods.getGameState: the snapshot handed to callers
getGameState(doc) ==
    [gameId |-> doc.gameId,
     status |-> doc.status,
     players |-> doc.players,
     boardSize |-> doc.boardSize,
     currentTurn |-> doc.currentTurn,
     moveCount |-> doc.moveCount,
     lastMove |-> doc.lastMove,
     board |-> doc.board,
     capturedStones |-> doc.capturedStones,
     started |-> doc.started]

-----------------------------------------------------------------------------
(* models/Player.ts: the player document (playerSchema) *)

Passwords == {"pw1", "pw2"}
DisplayNames == {"d1", "d2"}
RankInput == {"Beginner", "Master"}   \* two of the five ranks of the schema's enum
GameResults == {"win", "loss", "draw"}

\* bcrypt.hash(password, salt): the stored value is not the password
Hash(password) == <<"bcrypt", password>>

\* the defaults of playerSchema.stats; averagePoints is kept as the fraction
\* <<totalPoints, gamesPlayed>>
ZeroStats ==
    [gamesPlayed |-> 0, gamesWon |-> 0, gamesLost |-> 0, gamesDrawn |-> 0,
     totalPoints |-> 0, averagePoints |-> <<0, 1>>,
     winStreak |-> 0, currentStreak |-> 0, bestWinStreak |-> 0]

\* new Player({username, email, password, displayName}) after its first save:
\* the pre('save') hook has hashed the password, the rank is the default
NewPlayer(username, password, displayName, rank) ==
    [username |-> username,
     password |-> Hash(password),
     displayName |-> displayName,
     rank |-> rank,
     stats |-> ZeroStats,
     isOnline |-> FALSE,
     peak |-> 0]    \* history: the largest value stats.currentStreak has held

\* playerSchema.methods.comparePassword on a document loaded with its password
comparePassword(doc, candidatePassword) == doc.password = Hash(candidatePassword)

Max(a, b) == IF a >= b THEN a ELSE b

\* updateStats taking every result that is not a win for a loss
updateStatsWinOrLoss(stats, gameResult, points) ==
    LET played == stats.gamesPlayed + 1
        total == stats.totalPoints + points
    IN  IF gameResult = "win"
        THEN [stats EXCEPT
                !.gamesPlayed = played, !.totalPoints = total,
                !.gamesWon = @ + 1,
                !.currentStreak = @ + 1,
                !.bestWinStreak = Max(@, stats.currentStreak + 1),
                !.averagePoints = <<total, played>>]
        ELSE [stats EXCEPT
                !.gamesPlayed = played, !.totalPoints = total,
                !.gamesLost = IF gameResult = "loss" THEN @ + 1 ELSE @,
                !.currentStreak = 0,
                !.averagePoints = <<total, played>>]

\* playerSchema.methods.updateStats
updateStats(stats, gameResult, points) ==
    LET played == stats.gamesPlayed + 1
        total == stats.totalPoints + points
    IN  IF gameResult = "win"
        THEN [stats EXCEPT
                !.gamesPlayed = played, !.totalPoints = total,
                !.gamesWon = @ + 1,
                !.currentStreak = @ + 1,
                !.bestWinStreak = Max(@, stats.currentStreak + 1),
                !.averagePoints = <<total, played>>]
        ELSE IF gameResult = "loss"
        THEN [stats EXCEPT
                !.gamesPlayed = played, !.totalPoints = total,
                !.gamesLost = @ + 1,
                !.currentStreak = 0,
                !.averagePoints = <<total, played>>]
        ELSE [stats EXCEPT
                !.gamesPlayed = played, !.totalPoints = total,
                !.gamesDrawn = @ + 1,
                !.currentStreak = 0,
                !.averagePoints = <<total, played>>]

\* a player document after updateStats and save
Credited(doc, gameResult, points) ==
    LET stats == updateStats(doc.stats, gameResult, points)
    IN  [doc EXCEPT !.stats = stats, !.peak = Max(@, stats.currentStreak)]

\* player.toObject(): every stored path of the document as loaded
toObject(doc) == [f \in DOMAIN doc \ {"peak"} |-> doc[f]]

\* a document loaded with .select('-password'), or `delete o.password`
WithoutPassword(doc) == [f \in DOMAIN doc \ {"password"} |-> doc[f]]

\* the players collection with p1, p2, p3 registered and p3 a Master
Registered ==
    [p \in Players |->
        NewPlayer(p, "pw1", "d1", IF p = "p3" THEN "Master" ELSE "Beginner")]

-----------------------------------------------------------------------------
(* Board layouts, groups and liberties (the vocabulary of the properties) *)

Cells == Coord \X Coord   \* <<x, y>>

StoneAt(board, c) == board[c[2]][c[1]].stone

Layout(doc) ==
    [y \in DOMAIN doc.board |->
        [x \in DOMAIN doc.board[y] |-> doc.board[y][x].stone]]

Adjacent(c) ==
    {d \in Cells : \/ (d[1] = c[1] /\ (d[2] = c[2] + 1 \/ d[2] = c[2] - 1))
                   \/ (d[2] = c[2] /\ (d[1] = c[1] + 1 \/ d[1] = c[1] - 1))}

RECURSIVE Flood(_, _, _)
Flood(board, color, set) ==
    LET more == {d \in Cells : /\ d \notin set
                               /\ StoneAt(board, d) = color
                               /\ \E c \in set : d \in Adjacent(c)}
    IN  IF more = {} THEN set ELSE Flood(board, color, set \cup more)

\* the maximal 4-connected same-colour group of the stone at c
GroupAt(board, c) == Flood(board, StoneAt(board, c), {c})

\* the distinct empty intersections adjacent to any stone of the group
LibertiesOf(board, group) ==
    {d \in Cells : StoneAt(board, d) = null /\ \E c \in group : d \in Adjacent(c)}

LibertyCount(board, c) == Cardinality(LibertiesOf(board, GroupAt(board, c)))

-----------------------------------------------------------------------------
(* routes/games: the handlers *)

\* req.player.rank === 'Master'
IsMaster(p) == p = "p3"

\* res.status(code).json({ error }) or res.json({ message, data: { game } })
Answer(code, error, game) ==
    [code |-> code, error |-> error, game |-> game, player |-> NoPlayer]

NoGame == [status |-> "none"]
NoAnswer == Answer(0, "none", NoGame)
Accept == [code |-> 0, error |-> "ok"]
Refuse(code, error) == [code |-> code, error |-> error]

Event(kind, g, actor, reason, winner) ==
    [kind |-> kind, g |-> g, actor |-> actor, reason |-> reason, winner |-> winner]

NoEvent == Event("none", "none", "none", "none", "none")

Request(op, g, p, x, y, pc, doc) ==
    [op |-> op, g |-> g, p |-> p, x |-> x, y |-> y, pc |-> pc, doc |-> doc,
     winner |-> "none",
     changed |-> FALSE,    \* history: a save of this request changed the stored document
     lastReady |-> FALSE,  \* history: a save of this request made the second seat ready
     behind |-> {}]        \* history: the slots whose save on this session came before
                           \* this request's save and whose event is not yet emitted

Idle == Request("none", "none", "none", 0, 0, "idle", NoDoc)

\* the catch block of each handler: the 500 answer
ServerError(op) ==
    CASE op = "create" -> "Server error creating game"
      [] op = "join"   -> "Server error joining game"
      [] op = "ready"  -> "Server error updating player ready status"
      [] op = "move"   -> "Server error making move"
      [] op = "pass"   -> "Server error passing turn"
      [] op = "resign" -> "Server error resigning from game"
      [] op = "delete" -> "Server error deleting game"

\* POST /:gameId/join, from findOne to addPlayer: the early return taken
JoinCheck(d, p) ==
    IF ~IsDoc(d) THEN Refuse(404, "Game not found")
    ELSE IF d.status # "waiting" THEN Refuse(400, "Game is not accepting players")
    ELSE IF Len(d.players) >= 2 THEN Refuse(400, "Game is full")
    ELSE IF SeatOf(d, p) # 0 THEN Refuse(400, "You are already in this game")
    ELSE Accept

\* POST /:gameId/ready, from findOne to player.isReady = true
ReadyCheck(d, p) ==
    IF ~IsDoc(d) THEN Refuse(404, "Game not found")
    ELSE IF SeatOf(d, p) = 0 THEN Refuse(403, "You are not part of this game")
    ELSE Accept

\* POST /:gameId/move, from findOne to game.save(); a throw of makeMove is
\* caught by the handler's catch block
MoveCheck(d, p, x, y) ==
    IF ~IsDoc(d) THEN Refuse(404, "Game not found")
    ELSE IF d.status # "active" THEN Refuse(400, "Game is not active")
    ELSE IF SeatOf(d, p) = 0 THEN Refuse(403, "You are not part of this game")
    ELSE IF makeMoveError(d, x, y, d.players[SeatOf(d, p)].color) # "ok"
        THEN Refuse(500, ServerError("move"))
    ELSE Accept

\* POST /:gameId/pass, from findOne to game.save()
PassCheck(d, p) ==
    IF ~IsDoc(d) THEN Refuse(404, "Game not found")
    ELSE IF d.status # "active" THEN Refuse(400, "Game is not active")
    ELSE IF SeatOf(d, p) = 0 THEN Refuse(403, "You are not part of this game")
    ELSE IF passTurnError(d, d.players[SeatOf(d, p)].color) # "ok"
        THEN Refuse(500, ServerError("pass"))
    ELSE Accept

\* POST /:gameId/resign, from findOne to game.status = 'completed'
ResignCheck(d, p) ==
    IF ~IsDoc(d) THEN Refuse(404, "Game not found")
    ELSE IF d.status # "active" THEN Refuse(400, "Game is not active")
    ELSE IF SeatOf(d, p) = 0 THEN Refuse(403, "You are not part of this game")
    ELSE Accept

\* DELETE /:gameId, from findOne to findByIdAndDelete
DeleteCheck(d, p) ==
    IF ~IsDoc(d) THEN Refuse(404, "Game not found")
    ELSE IF d.createdBy # p /\ ~IsMaster(p) THEN Refuse(403, "Insufficient permissions")
    ELSE Accept

\* a new request is served in the first idle slot
FirstIdle(s) == reqs[s] = Idle /\ \A t \in DOMAIN reqs : t < s => reqs[t] # Idle

\* `await Game.findOne(..)` and the synchronous code up to the next await:
\* an early return answers at once, otherwise the handler holds its copy of
\* the document and waits for its save
Begin(s, op, g, p, x, y, check) ==
    /\ FirstIdle(s)
    /\ IF check.code # 0
       THEN /\ resp' = Answer(check.code, check.error, NoGame)
            /\ UNCHANGED reqs
       ELSE /\ reqs' = [reqs EXCEPT ![s] = Request(op, g, p, x, y, "write", games[g])]
            /\ resp' = NoAnswer
    /\ emitted' = NoEvent
    /\ UNCHANGED <<games, ledger, match, accounts>>

\* the requests on session g whose save was taken and whose event is still to
\* be emitted (between `await game.save()` and the emit that follows it)
Unannounced(g) ==
    {t \in DOMAIN reqs : reqs[t].g = g /\ reqs[t].pc \in {"done", "ready"}}

\* the requests after the handler in slot s has emitted its event and become `own`
Announced(s, own) ==
    [t \in DOMAIN reqs |->
        IF t = s THEN own ELSE [reqs[t] EXCEPT !.behind = @ \ {s}]]

\* Mongoose's rule for a plain path: it is sent only when its value changed
Sent(before, after, stored) == IF after # before THEN after ELSE stored

\* the entries pushed onto an array since it was loaded
Pushed(before, after) == SubSeq(after, Len(before) + 1, Len(after))

\* the save modifies an element below an array index (players.i.isReady,
\* board.y.x.stone) or assigns a whole array: the update tests __v
TestsVersion(before, after, whole) ==
    \/ whole
    \/ \E i \in 1..Len(before.players) : after.players[i] # before.players[i]
    \/ (~whole /\ after.board # before.board)

\* the save pushes onto an array or assigns a whole array: the update
\* increments __v
IncrementsVersion(before, after, whole) ==
    \/ whole
    \/ Len(after.players) > Len(before.players)
    \/ Len(after.moveHistory) > Len(before.moveHistory)

\* whether the database takes the update of `await game.save()`
SaveOk(stored, before, after, whole) ==
    /\ IsDoc(stored)
    /\ TestsVersion(before, after, whole) => stored.v = before.v

\* the stored document after `await game.save()`: the modified paths of the
\* handler's copy (`after`, loaded as `before`) written over `stored`
SaveDoc(stored, before, after, whole) ==
    [stored EXCEPT
        !.status = Sent(before.status, after.status, @),
        !.players =
            [i \in 1..Len(@) |->
                IF i <= Len(before.players)
                THEN Sent(before.players[i], after.players[i], @[i])
                ELSE @[i]]
            \o Pushed(before.players, after.players),
        !.currentTurn = Sent(before.currentTurn, after.currentTurn, @),
        !.moveCount = Sent(before.moveCount, after.moveCount, @),
        !.lastMove = Sent(before.lastMove, after.lastMove, @),
        !.board =
            IF whole THEN after.board
            ELSE IF after.board = before.board THEN @
            ELSE [y \in DOMAIN @ |-> [x \in DOMAIN @[y] |->
                    Sent(before.board[y][x], after.board[y][x], @[y][x])]],
        !.moveHistory = @ \o Pushed(before.moveHistory, after.moveHistory),
        !.consecutivePasses =
            Sent(before.consecutivePasses, after.consecutivePasses, @),
        !.started = Sent(before.started, after.started, @),
        !.v = IF IncrementsVersion(before, after, whole) THEN @ + 1 ELSE @]

\* a save that the database rejects (VersionError, DocumentNotFoundError) or
\* any other throw after the first await: the catch block answers 500
Fail(s) ==
    /\ reqs' = [reqs EXCEPT ![s] = Idle]
    /\ resp' = Answer(500, ServerError(reqs[s].op), NoGame)
    /\ emitted' = NoEvent
    /\ UNCHANGED <<games, ledger, match, accounts>>

\* two players are seated and every seated player is ready
RosterReady(doc) == Len(doc.players) = 2 /\ AllReady(doc)

\* `await game.save()` of the handler in slot s, whose copy is now `after`:
\* the update reaches the database, or the save throws
Save(s, after, whole, pc, winner, cap) ==
    LET r == reqs[s]
        stored == games[r.g]
        inc == IncrementsVersion(r.doc, after, whole)
    IN  IF ~SaveOk(stored, r.doc, after, whole)
        THEN Fail(s)
        ELSE /\ inc => stored.v < cap.v
             /\ Len(after.moveHistory) > Len(r.doc.moveHistory)
                    => Len(stored.moveHistory) < cap.plies
             /\ games' = [games EXCEPT ![r.g] = SaveDoc(stored, r.doc, after, whole)]
             /\ ledger' =
                    IF Len(after.moveHistory) > Len(r.doc.moveHistory)
                    THEN [ledger EXCEPT ![r.g] =
                            Append(@, Layout(SaveDoc(stored, r.doc, after, whole)))]
                    ELSE ledger
             /\ UNCHANGED <<match, accounts>>
             /\ reqs' = [reqs EXCEPT ![s] =
                    [@ EXCEPT !.doc = [after EXCEPT !.v = IF inc THEN @ + 1 ELSE @],
                              !.pc = pc,
                              !.winner = winner,
                              !.changed = @ \/ SaveDoc(stored, r.doc, after, whole) # stored,
                              !.lastReady = @ \/ (/\ ~RosterReady(stored)
                                                  /\ RosterReady(SaveDoc(stored, r.doc, after, whole))),
                              !.behind = Unannounced(r.g) \ {s}]]
             /\ resp' = NoAnswer
             /\ emitted' = NoEvent

\* the code after the last save: emit the event, answer 200 with the snapshot
Finish(s, event) ==
    /\ emitted' = event
    /\ resp' = Answer(200, "ok", getGameState(reqs[s].doc))
    /\ reqs' = Announced(s, Idle)
    /\ UNCHANGED <<games, ledger, match, accounts>>

Pending(s, op, pc) == reqs[s].pc = pc /\ reqs[s].op = op

\* a create whose insert replaces the stored document of the same id
CreateWriteOver(s, g, p) ==
    /\ FirstIdle(s)
    /\ games[g] # Gone
    /\ LET doc == addPlayer(NewGame(g, p), p)
       IN  /\ games' = [games EXCEPT ![g] = doc]
           /\ reqs' = [reqs EXCEPT ![s] = Request("create", g, p, 0, 0, "done", doc)]
    /\ resp' = NoAnswer
    /\ emitted' = NoEvent
    /\ UNCHANGED <<ledger, match, accounts>>

\* POST /: new Game with gameId g = uuidv4(), addPlayer(creator), game.save()
\* (an insert, __v = 0). When a document of that id is stored, the unique
\* index on gameId refuses the insert, save throws and the catch answers 500.
\* The ids of deleted documents are not drawn again.
CreateWrite(s, g, p) ==
    /\ FirstIdle(s)
    /\ games[g] # Gone
    /\ IF IsDoc(games[g])
       THEN /\ resp' = Answer(500, ServerError("create"), NoGame)
            /\ UNCHANGED <<games, reqs>>
       ELSE /\ LET doc == addPlayer(NewGame(g, p), p)
               IN  /\ games' = [games EXCEPT ![g] = doc]
                   /\ reqs' = [reqs EXCEPT ![s] =
                                    Request("create", g, p, 0, 0, "done", doc)]
            /\ resp' = NoAnswer
    /\ emitted' = NoEvent
    /\ UNCHANGED <<ledger, match, accounts>>

CreateDone(s) ==
    /\ Pending(s, "create", "done")
    /\ emitted' = Event("new-game-created", reqs[s].g, reqs[s].p, "none", "none")
    /\ resp' = Answer(201, "ok", getGameState(reqs[s].doc))
    /\ reqs' = Announced(s, Idle)
    /\ UNCHANGED <<games, ledger, match, accounts>>

\* a read that saves the document it has read
GetTouching(g) ==
    /\ resp' = IF IsDoc(games[g])
               THEN Answer(200, "ok", getGameState(games[g]))
               ELSE Answer(404, "Game not found", NoGame)
    /\ emitted' = NoEvent
    /\ games' = [games EXCEPT ![g] = IF IsDoc(@) THEN [@ EXCEPT !.v = @ + 1] ELSE @]
    /\ UNCHANGED <<reqs, ledger, match, accounts>>

\* GET /:gameId: findOne and getGameState, no save
Get(g) ==
    /\ resp' = IF IsDoc(games[g])
               THEN Answer(200, "ok", getGameState(games[g]))
               ELSE Answer(404, "Game not found", NoGame)
    /\ emitted' = NoEvent
    /\ UNCHANGED <<games, reqs, ledger, match, accounts>>

JoinFind(s, g, p) == Begin(s, "join", g, p, 0, 0, JoinCheck(games[g], p))

\* game.addPlayer(..); await game.save()
JoinWrite(s, cap) ==
    /\ Pending(s, "join", "write")
    /\ IF addPlayerThrows(reqs[s].doc)
       THEN Fail(s)
       ELSE Save(s, addPlayer(reqs[s].doc, reqs[s].p), FALSE, "done", "none", cap)

JoinDone(s) ==
    /\ Pending(s, "join", "done")
    /\ Finish(s, Event("player-joined", reqs[s].g, reqs[s].p, "none", "none"))

ReadyFind(s, g, p) == Begin(s, "ready", g, p, 0, 0, ReadyCheck(games[g], p))

\* player.isReady = true; await game.save()
ReadyWrite(s, cap) ==
    /\ Pending(s, "ready", "write")
    /\ LET r == reqs[s]
       IN  Save(s, [r.doc EXCEPT !.players[SeatOf(r.doc, r.p)].isReady = TRUE],
                FALSE, "ready", "none", cap)

BothReady(doc) == Len(doc.players) = 2 /\ AllReady(doc)

\* after the first save: emit 'player-ready'; when both players are ready
\* startGame() and a second save follow, otherwise the answer
ReadyEmit(s) ==
    /\ Pending(s, "ready", "ready")
    /\ emitted' = Event("player-ready", reqs[s].g, reqs[s].p, "none", "none")
    /\ IF BothReady(reqs[s].doc)
       THEN /\ reqs' = Announced(s, [reqs[s] EXCEPT !.pc = "start"])
            /\ resp' = NoAnswer
       ELSE /\ resp' = Answer(200, "ok", getGameState(reqs[s].doc))
            /\ reqs' = Announced(s, Idle)
    /\ UNCHANGED <<games, ledger, match, accounts>>

\* game.startGame(); await game.save()
StartWrite(s, cap) ==
    /\ Pending(s, "ready", "start")
    /\ IF startGameThrows(reqs[s].doc)
       THEN Fail(s)
       ELSE Save(s, startGame(reqs[s].doc), TRUE, "done", "none", cap)

ReadyDone(s) ==
    /\ Pending(s, "ready", "done")
    /\ Finish(s, Event("game-started", reqs[s].g, reqs[s].p, "none", "none"))

MoveFind(s, g, p, x, y) == Begin(s, "move", g, p, x, y, MoveCheck(games[g], p, x, y))

\* game.makeMove(..) on the handler's copy; await game.save()
MoveWrite(s, cap) ==
    /\ Pending(s, "move", "write")
    /\ LET r == reqs[s]
       IN  Save(s, makeMove(r.doc, r.p, r.x, r.y, r.doc.players[SeatOf(r.doc, r.p)].color),
                FALSE, "done", "none", cap)

MoveDone(s) ==
    /\ Pending(s, "move", "done")
    /\ Finish(s, Event("move-made", reqs[s].g, reqs[s].p, "none", "none"))

PassFind(s, g, p) == Begin(s, "pass", g, p, 0, 0, PassCheck(games[g], p))

\* game.passTurn(..) on the handler's copy; await game.save()
PassWrite(s, cap) ==
    /\ Pending(s, "pass", "write")
    /\ LET r == reqs[s]
       IN  Save(s, passTurn(r.doc, r.p, r.doc.players[SeatOf(r.doc, r.p)].color),
                FALSE, "done", "none", cap)

PassDone(s) ==
    /\ Pending(s, "pass", "done")
    /\ Finish(s, Event("turn-passed", reqs[s].g, reqs[s].p, "none", "none"))

ResignFind(s, g, p) == Begin(s, "resign", g, p, 0, 0, ResignCheck(games[g], p))

\* the resigning player taken for the winner
OtherPlayerIsSelf(doc, p) == p

\* game.players.find(p => p.playerId.toString() !== req.player._id.toString()):
\* the first seated player who is not p, "none" when there is none
OtherPlayer(doc, p) ==
    IF \E i \in 1..Len(doc.players) : doc.players[i].playerId # p
    THEN doc.players[CHOOSE i \in 1..Len(doc.players) :
            /\ doc.players[i].playerId # p
            /\ \A j \in 1..(i - 1) : doc.players[j].playerId = p].playerId
    ELSE "none"

\* game.status = 'completed'; winner = the other player; await game.save()
ResignWrite(s, cap) ==
    /\ Pending(s, "resign", "write")
    /\ LET r == reqs[s]
       IN  Save(s, [r.doc EXCEPT !.status = "completed"], FALSE, "done",
                OtherPlayer(r.doc, r.p), cap)

ResignDone(s) ==
    /\ Pending(s, "resign", "done")
    /\ Finish(s, Event("game-ended", reqs[s].g, reqs[s].p, "resignation", reqs[s].winner))

DeleteFind(s, g, p) == Begin(s, "delete", g, p, 0, 0, DeleteCheck(games[g], p))

\* a delete that removes every stored document
DeleteWriteAll(s) ==
    /\ Pending(s, "delete", "write")
    /\ games' = [g \in GameIds |-> IF IsDoc(games[g]) THEN Gone ELSE games[g]]
    /\ reqs' = [reqs EXCEPT ![s] = [@ EXCEPT !.pc = "done", !.changed = TRUE,
                                              !.behind = Unannounced(reqs[s].g) \ {s}]]
    /\ resp' = NoAnswer
    /\ emitted' = NoEvent
    /\ UNCHANGED <<ledger, match, accounts>>

\* await Game.findByIdAndDelete(game._id)
DeleteWrite(s) ==
    /\ Pending(s, "delete", "write")
    /\ games' = [games EXCEPT ![reqs[s].g] = Gone]
    /\ reqs' = [reqs EXCEPT ![s] = [@ EXCEPT !.pc = "done", !.changed = TRUE,
                                              !.behind = Unannounced(reqs[s].g) \ {s}]]
    /\ resp' = NoAnswer
    /\ emitted' = NoEvent
    /\ UNCHANGED <<ledger, match, accounts>>

\* emit 'game-deleted'; res.json({ message: 'Game deleted successfully' })
DeleteDone(s) ==
    /\ Pending(s, "delete", "done")
    /\ emitted' = Event("game-deleted", reqs[s].g, reqs[s].p, "deleted by creator", "none")
    /\ resp' = Answer(200, "ok", NoGame)
    /\ reqs' = Announced(s, Idle)
    /\ UNCHANGED <<games, ledger, match, accounts>>

-----------------------------------------------------------------------------
(* Specifications *)

Init ==
    /\ games = [g \in GameIds |-> NoDoc]
    /\ reqs = [s \in Slots |-> Idle]
    /\ resp = NoAnswer
    /\ emitted = NoEvent
    /\ ledger = [g \in GameIds |-> << >>]
    /\ match = [m \in MatchIds |-> NoMatch]
    /\ accounts = Registered

\* one step of the server: slots S serve requests on the games G, the stored
\* move histories capped at cap.plies and the version keys at cap.v
Step(S, G, cap) ==
    \/ \E s \in S, g \in G, p \in Creators : CreateWrite(s, g, p)
    \/ \E s \in S : CreateDone(s)
    \/ \E g \in G : Get(g)
    \/ \E s \in S, g \in G, p \in Players : JoinFind(s, g, p)
    \/ \E s \in S : JoinWrite(s, cap)
    \/ \E s \in S : JoinDone(s)
    \/ \E s \in S, g \in G, p \in Players : ReadyFind(s, g, p)
    \/ \E s \in S : ReadyWrite(s, cap)
    \/ \E s \in S : ReadyEmit(s)
    \/ \E s \in S : StartWrite(s, cap)
    \/ \E s \in S : ReadyDone(s)
    \/ \E s \in S, g \in G, p \in Players, x \in CoordInput, y \in CoordInput :
            MoveFind(s, g, p, x, y)
    \/ \E s \in S : MoveWrite(s, cap)
    \/ \E s \in S : MoveDone(s)
    \/ \E s \in S, g \in G, p \in Players : PassFind(s, g, p)
    \/ \E s \in S : PassWrite(s, cap)
    \/ \E s \in S : PassDone(s)
    \/ \E s \in S, g \in G, p \in Players : ResignFind(s, g, p)
    \/ \E s \in S : ResignWrite(s, cap)
    \/ \E s \in S : ResignDone(s)
    \/ \E s \in S, g \in G, p \in Players : DeleteFind(s, g, p)
    \/ \E s \in S : DeleteWrite(s)
    \/ \E s \in S : DeleteDone(s)

\* the server with MaxInFlight requests in flight on one game
Next == Step(Slots, {"g1"}, [plies |-> MaxPlies, v |-> MaxVersion])

Spec == Init /\ [][Next]_vars

\* the server handling one request at a time on one game
NextSerial == Step({1}, {"g1"}, [plies |-> MaxPliesSerial, v |-> MaxVersionSerial])

SpecSerial == Init /\ [][NextSerial]_vars

\* the server handling one request at a time on two games
NextTwo == Step({1}, GameIds, [plies |-> MaxPlies, v |-> MaxVersion])

SpecTwo == Init /\ [][NextTwo]_vars

\* the server with two requests in flight on a game that two seated, ready
\* players have started: the state after create, join, ready, ready
Started ==
    LET seated == addPlayer(addPlayer(NewGame("g1", "p1"), "p1"), "p2")
        ready == [seated EXCEPT !.players[1].isReady = TRUE,
                                !.players[2].isReady = TRUE]
    IN  [startGame(ready) EXCEPT !.v = 2]

InitPlay ==
    /\ games = [g \in GameIds |-> IF g = "g1" THEN Started ELSE NoDoc]
    /\ reqs = [s \in Slots |-> Idle]
    /\ resp = NoAnswer
    /\ emitted = NoEvent
    /\ ledger = [g \in GameIds |-> << >>]
    /\ match = [m \in MatchIds |-> NoMatch]
    /\ accounts = Registered

Seated == {"p1", "p2"}

NextPlay ==
    LET cap == [plies |-> MaxPliesPlay, v |-> 2 + MaxPliesPlay]
    IN  \/ \E s \in Slots, p \in Seated, x \in CoordInput, y \in CoordInput :
                MoveFind(s, "g1", p, x, y)
        \/ \E s \in Slots : MoveWrite(s, cap)
        \/ \E s \in Slots : MoveDone(s)
        \/ \E s \in Slots, p \in Seated : PassFind(s, "g1", p)
        \/ \E s \in Slots : PassWrite(s, cap)
        \/ \E s \in Slots : PassDone(s)

SpecPlay == InitPlay /\ [][NextPlay]_vars

-----------------------------------------------------------------------------
(* The match record: models/Player.ts (matchSchema) and the route            *)
(* POST /:id/end of middleware/auth.ts                                       *)

Colors == {"black", "white"}
EndReasons == {"resignation", "timeout", "normal", "abandoned"}
ScoreInput == 0..MaxScore   \* body('finalScores.black' | 'finalScores.white').isNumeric()

Abs(n) == IF n < 0 THEN 0 - n ELSE n

NoResult == [endReason |-> "none"]

\* a match in progress between p1 (black) and p2 (white); a player's
\* finalScore is {} while unset and {n} once set to n
MatchInProgress ==
    [status |-> "active",
     players |-> <<[playerId |-> "p1", color |-> "black", finalScore |-> {}],
                   [playerId |-> "p2", color |-> "white", finalScore |-> {}]>>,
     result |-> NoResult]

\* matchSchema.methods.endGame
endGame(m, endReason, winnerId, finalScores) ==
    [m EXCEPT
        !.status = "completed",
        !.result = [winner |-> winnerId,
                    winnerColor |-> IF finalScores.black > finalScores.white
                                    THEN "black" ELSE "white",
                    finalScore |-> finalScores,
                    margin |-> Abs(finalScores.black - finalScores.white),
                    endReason |-> endReason],
        !.players = [i \in DOMAIN m.players |->
                        IF m.players[i].playerId = winnerId
                        THEN [m.players[i] EXCEPT
                                !.finalScore = {finalScores[m.players[i].color]}]
                        ELSE m.players[i]]]

\* the player the end route takes for the loser: the first player of the match
\* whose id is not winnerId
LoserOf(m, winnerId) ==
    LET others == {i \in DOMAIN m.players : m.players[i].playerId # winnerId}
    IN  m.players[CHOOSE i \in others : \A j \in others : i <= j].playerId

\* the players collection after the end route's updates of the statistics:
\* winner.updateStats('win', ..) and loser.updateStats('loss', ..), each saved.
\* The points are finalScores[player.color] || 0, and a player document has no
\* colour: 0.
StatsAfterEnd(m, winnerId) ==
    [p \in DOMAIN accounts |->
        IF accounts[p] = NoPlayer THEN accounts[p]
        ELSE IF p = winnerId THEN Credited(accounts[p], "win", 0)
        ELSE IF p = LoserOf(m, winnerId) THEN Credited(accounts[p], "loss", 0)
        ELSE accounts[p]]

\* POST /:id/end by the authenticated player `caller`: findById, the
\* membership test, endGame and save, then the updates of the statistics of
\* the winner and of the loser, one request at a time. Statistics are counted
\* up to cap games.
MatchEnd(id, caller, winnerId, endReason, black, white, cap) ==
    /\ IF match[id] = NoMatch
       THEN /\ resp' = Answer(404, "Match not found", NoGame)
            /\ UNCHANGED <<match, accounts>>
       ELSE IF \A i \in DOMAIN match[id].players : match[id].players[i].playerId # caller
       THEN /\ resp' = Answer(403, "You are not part of this match", NoGame)
            /\ UNCHANGED <<match, accounts>>
       ELSE /\ \A p \in {winnerId, LoserOf(match[id], winnerId)} :
                    accounts[p] # NoPlayer => accounts[p].stats.gamesPlayed < cap
            /\ match' = [match EXCEPT ![id] =
                            endGame(@, endReason, winnerId,
                                    [black |-> black, white |-> white])]
            /\ accounts' = StatsAfterEnd(match[id], winnerId)
            /\ resp' = Answer(200, "ok", NoGame)
    /\ emitted' = NoEvent
    /\ UNCHANGED <<games, reqs, ledger>>

InitMatch ==
    /\ games = [g \in GameIds |-> NoDoc]
    /\ reqs = [s \in Slots |-> Idle]
    /\ resp = NoAnswer
    /\ emitted = NoEvent
    /\ ledger = [g \in GameIds |-> << >>]
    /\ match = [m \in MatchIds |-> IF m = "m1" THEN MatchInProgress ELSE NoMatch]
    /\ accounts = Registered

NextMatch ==
    \E id \in MatchIds, caller \in Players, winnerId \in Players,
       endReason \in EndReasons, black \in ScoreInput, white \in ScoreInput :
        MatchEnd(id, caller, winnerId, endReason, black, white, MaxGamesMatch)

\* the match routes serving end requests on a match in progress
SpecMatch == InitMatch /\ [][NextMatch]_vars

-----------------------------------------------------------------------------
(* The statistics of a player under any sequence of updateStats calls *)

\* player.updateStats(gameResult, points); await player.save()
UpdateStats(p, gameResult, points) ==
    /\ accounts[p] # NoPlayer
    /\ accounts[p].stats.gamesPlayed < MaxGames
    /\ accounts' = [accounts EXCEPT ![p] = Credited(@, gameResult, points)]
    /\ resp' = NoAnswer
    /\ emitted' = NoEvent
    /\ UNCHANGED <<games, reqs, ledger, match>>

NextStats ==
    \E gameResult \in GameResults, points \in ScoreInput :
        UpdateStats("p1", gameResult, points)

\* updateStats called any number of times on player p1, whose statistics
\* start at zero
SpecStats == Init /\ [][NextStats]_vars

-----------------------------------------------------------------------------
(* routes/auth (register, login, me, profile, change-password, logout),     *)
(* PUT /:id/rank of routes/players and DELETE /:id of the match routes.      *)
(* A player is known by its username; the caller of a route behind `auth`   *)
(* is the player its token names. One request at a time.                    *)

AccountAnswer(code, error, player) ==
    [code |-> code, error |-> error, game |-> NoGame, player |-> player]

\* the frame of the account routes: they emit nothing and touch no game
AccountFrame ==
    /\ emitted' = NoEvent
    /\ UNCHANGED <<games, reqs, ledger>>

\* POST /register: findOne, new Player, save, toObject
Register(username, password, displayName) ==
    /\ IF accounts[username] # NoPlayer
       THEN /\ resp' = AccountAnswer(400, "Username or email already exists", NoPlayer)
            /\ UNCHANGED accounts
       ELSE LET player == NewPlayer(username, password, displayName, "Beginner")
            IN  /\ accounts' = [accounts EXCEPT ![username] = player]
                /\ resp' = AccountAnswer(201, "ok", toObject(player))
    /\ UNCHANGED match
    /\ AccountFrame

\* POST /login: findOne, comparePassword, isOnline = true, save, toObject
Login(username, password) ==
    /\ IF accounts[username] = NoPlayer \/ ~comparePassword(accounts[username], password)
       THEN /\ resp' = AccountAnswer(401, "Invalid credentials", NoPlayer)
            /\ UNCHANGED accounts
       ELSE LET player == [accounts[username] EXCEPT !.isOnline = TRUE]
            IN  /\ accounts' = [accounts EXCEPT ![username] = player]
                /\ resp' = AccountAnswer(200, "ok", toObject(player))
    /\ UNCHANGED match
    /\ AccountFrame

\* the middleware `auth` refuses the caller: no player of the token's id
AuthRefuses(caller) == accounts[caller] = NoPlayer

InvalidToken == AccountAnswer(401, "Invalid token.", NoPlayer)

\* req.player: Player.findById(decoded.playerId).select('-password')
ReqPlayer(caller) == WithoutPassword(accounts[caller])

\* GET /me: toObject, delete password
Me(caller) ==
    /\ resp' = IF AuthRefuses(caller) THEN InvalidToken
               ELSE AccountAnswer(200, "ok", WithoutPassword(toObject(ReqPlayer(caller))))
    /\ UNCHANGED <<accounts, match>>
    /\ AccountFrame

\* a profile update that copies a rank from the request body
ProfileWithRank(caller, displayName) ==
    /\ IF AuthRefuses(caller)
       THEN /\ resp' = InvalidToken
            /\ UNCHANGED accounts
       ELSE /\ accounts' = [accounts EXCEPT ![caller].displayName = displayName,
                                             ![caller].rank = "Master"]
            /\ resp' = AccountAnswer(200, "ok",
                            WithoutPassword(toObject(accounts'[caller])))
    /\ UNCHANGED match
    /\ AccountFrame

\* PUT /profile: displayName (avatar and preferences likewise), save
Profile(caller, displayName) ==
    /\ IF AuthRefuses(caller)
       THEN /\ resp' = InvalidToken
            /\ UNCHANGED accounts
       ELSE /\ accounts' = [accounts EXCEPT ![caller].displayName = displayName]
            /\ resp' = AccountAnswer(200, "ok",
                            WithoutPassword(toObject(accounts'[caller])))
    /\ UNCHANGED match
    /\ AccountFrame

\* bcrypt.compare(candidate, this.password) rejects when the document was
\* loaded without its password
comparePasswordThrows(doc) == "password" \notin DOMAIN doc

\* POST /change-password: comparePassword on req.player, password = new, save
ChangePassword(caller, currentPassword, newPassword) ==
    /\ IF AuthRefuses(caller)
       THEN /\ resp' = InvalidToken
            /\ UNCHANGED accounts
       ELSE IF comparePasswordThrows(ReqPlayer(caller))
       THEN /\ resp' = AccountAnswer(500, "Server error changing password", NoPlayer)
            /\ UNCHANGED accounts
       ELSE IF ~comparePassword(ReqPlayer(caller), currentPassword)
       THEN /\ resp' = AccountAnswer(400, "Current password is incorrect", NoPlayer)
            /\ UNCHANGED accounts
       ELSE /\ accounts' = [accounts EXCEPT ![caller].password = Hash(newPassword)]
            /\ resp' = AccountAnswer(200, "ok", NoPlayer)
    /\ UNCHANGED match
    /\ AccountFrame

\* POST /logout: isOnline = false, save
Logout(caller) ==
    /\ IF AuthRefuses(caller)
       THEN /\ resp' = InvalidToken
            /\ UNCHANGED accounts
       ELSE /\ accounts' = [accounts EXCEPT ![caller].isOnline = FALSE]
            /\ resp' = AccountAnswer(200, "ok", NoPlayer)
    /\ UNCHANGED match
    /\ AccountFrame

Forbidden == AccountAnswer(403, "Insufficient permissions", NoPlayer)

\* PUT /:id/rank: the rank test, findByIdAndUpdate(id, { rank })
RankUpdate(caller, id, rank) ==
    /\ IF AuthRefuses(caller)
       THEN /\ resp' = InvalidToken
            /\ UNCHANGED accounts
       ELSE IF ReqPlayer(caller).rank # "Master"
       THEN /\ resp' = Forbidden
            /\ UNCHANGED accounts
       ELSE IF accounts[id] = NoPlayer
       THEN /\ resp' = AccountAnswer(404, "Player not found", NoPlayer)
            /\ UNCHANGED accounts
       ELSE /\ accounts' = [accounts EXCEPT ![id].rank = rank]
            /\ resp' = AccountAnswer(200, "ok",
                            WithoutPassword(toObject(accounts'[id])))
    /\ UNCHANGED match
    /\ AccountFrame

\* DELETE /:id of the match routes: the rank test, findByIdAndDelete
MatchDelete(caller, id) ==
    /\ IF AuthRefuses(caller)
       THEN /\ resp' = InvalidToken
            /\ UNCHANGED match
       ELSE IF ReqPlayer(caller).rank # "Master"
       THEN /\ resp' = Forbidden
            /\ UNCHANGED match
       ELSE IF match[id] = NoMatch
       THEN /\ resp' = AccountAnswer(404, "Match not found", NoPlayer)
            /\ UNCHANGED match
       ELSE /\ match' = [match EXCEPT ![id] = NoMatch]
            /\ resp' = AccountAnswer(200, "ok", NoPlayer)
    /\ UNCHANGED accounts
    /\ AccountFrame

\* p3, a Master, is registered; p1 and p2 are not yet; match m1 is stored
InitAccounts ==
    /\ games = [g \in GameIds |-> NoDoc]
    /\ reqs = [s \in Slots |-> Idle]
    /\ resp = NoAnswer
    /\ emitted = NoEvent
    /\ ledger = [g \in GameIds |-> << >>]
    /\ match = [m \in MatchIds |-> IF m = "m1" THEN MatchInProgress ELSE NoMatch]
    /\ accounts = [p \in Players |-> IF p = "p3" THEN Registered[p] ELSE NoPlayer]

NextAccounts ==
    \/ \E username \in Players, password \in Passwords, displayName \in DisplayNames :
            Register(username, password, displayName)
    \/ \E username \in Players, password \in Passwords : Login(username, password)
    \/ \E caller \in Players : Me(caller)
    \/ \E caller \in Players, displayName \in DisplayNames : Profile(caller, displayName)
    \/ \E caller \in Players, currentPassword \in Passwords, newPassword \in Passwords :
            ChangePassword(caller, currentPassword, newPassword)
    \/ \E caller \in Players : Logout(caller)
    \/ \E caller \in Players, id \in Players, rank \in RankInput :
            RankUpdate(caller, id, rank)
    \/ \E caller \in Players, id \in MatchIds : MatchDelete(caller, id)

\* the account routes, the rank route and the match deletion
SpecAccounts == InitAccounts /\ [][NextAccounts]_vars

-----------------------------------------------------------------------------
(* Properties *)

LastEntry(doc) == doc.moveHistory[Len(doc.moveHistory)]

\* this step stored one more history entry of game g
PlyStored(g) ==
    /\ IsDoc(games[g])
    /\ IsDoc(games'[g])
    /\ Len(games'[g].moveHistory) = Len(games[g].moveHistory) + 1

\* this step is the save of an accepted stone move on game g
MoveAccepted(g) == PlyStored(g) /\ ~LastEntry(games'[g]).pass

\* this step is the save of an accepted pass on game g
PassAccepted(g) == PlyStored(g) /\ LastEntry(games'[g]).pass

\* the board with a stone of `color` put on <<x, y>>, nothing removed
Placed(board, x, y, color) == [board EXCEPT ![y][x].stone = color]

\* the stones of `color` whose group has no liberty
Dead(board, color) ==
    {q \in Cells : StoneAt(board, q) = color /\ LibertyCount(board, q) = 0}

NoDeadGroup(board) == Dead(board, "black") = {} /\ Dead(board, "white") = {}

\* C1: right after an accepted move every group on the board has at least one
\* liberty
C1_GroupsKeepLiberty ==
    [][\A g \in GameIds : MoveAccepted(g) => NoDeadGroup(games'[g].board)]_vars

\* C2: an accepted move that takes the last liberty of a single opposing stone
\* removes that stone, credits the mover with exactly one capture and records
\* the captured coordinate in the move's history entry
C2_SingleStoneCaptured ==
    [][\A g \in GameIds : MoveAccepted(g) =>
        LET mv == LastEntry(games'[g])
            placed == Placed(games[g].board, mv.x, mv.y, mv.color)
            dead == Dead(placed, Opp(mv.color))
        IN  \A q \in dead :
                (dead = {q} /\ \A d \in Adjacent(q) : StoneAt(placed, d) = mv.color)
                => /\ StoneAt(games'[g].board, q) = null
                   /\ games'[g].capturedStones[mv.color]
                        = games[g].capturedStones[mv.color] + 1
                   /\ mv.capturedStones = <<[x |-> q[1], y |-> q[2]]>>]_vars

\* C3: with suicideAllowed = false (every created game) no move is accepted
\* whose own group is left without a liberty while it captures nothing
C3_SuicideRejected ==
    [][\A g \in GameIds : (MoveAccepted(g) /\ ~games[g].suicideAllowed) =>
        LET mv == LastEntry(games'[g])
            placed == Placed(games[g].board, mv.x, mv.y, mv.color)
        IN  ~(/\ LibertyCount(placed, <<mv.x, mv.y>>) = 0
              /\ Dead(placed, Opp(mv.color)) = {})]_vars

\* C4: under the standard ko rule (every created game) no accepted move leaves
\* the board with the stone layout it had one ply before the position the
\* move was played on
C4_NoKoRepetition ==
    [][\A g \in GameIds :
        (MoveAccepted(g) /\ games[g].koRule = "standard" /\ Len(ledger[g]) >= 2)
        => Layout(games'[g]) # ledger[g][Len(ledger[g]) - 1]]_vars

\* C5: from an active session, a pass by the player on turn immediately
\* followed by a pass by the other player moves the session to completed
C5_DoublePassCompletes ==
    [][\A g \in GameIds :
        (/\ PassAccepted(g)
         /\ Len(games[g].moveHistory) >= 1
         /\ LastEntry(games[g]).pass
         /\ LastEntry(games[g]).color = Opp(LastEntry(games'[g]).color))
        => games'[g].status = "completed"]_vars

IsSeated(doc, p) == \E i \in 1..Len(doc.players) : doc.players[i].playerId = p

\* this step is the save of the resign request in slot s
ResignSaved(s) ==
    reqs[s].op = "resign" /\ reqs[s].pc = "write" /\ reqs'[s].pc = "done"

InFlight(s) == reqs[s].pc \in {"write", "ready", "start"}

\* C7: per session at most one mutating request is between its load and its
\* save at any time
C7_OneMutationInFlight ==
    \A s, t \in Slots : (s # t /\ InFlight(s) /\ InFlight(t)) => reqs[s].g # reqs[t].g

\* C8: a rejected request (an error answer) leaves the stored session as it
\* was: it has changed nothing
C8_RejectedChangesNothing ==
    [][/\ \A s \in Slots :
            (reqs[s].pc # "idle" /\ reqs'[s].pc = "idle" /\ resp'.code >= 400)
            => ~reqs[s].changed
       /\ (reqs' = reqs /\ resp'.code >= 400) => games' = games]_vars

\* a snapshot of the middle of the ready transition: two players seated, both
\* ready, the phase still waiting
HalfStarted(game) ==
    /\ game.status = "waiting"
    /\ Len(game.players) = 2
    /\ \A i \in 1..2 : game.players[i].isReady

\* C9: no answer carries a snapshot of the middle of the ready transition
C9_NoHalfStartedSnapshot == resp.code = 200 /\ resp.game # NoGame => ~HalfStarted(resp.game)

\* C10: completed is terminal: once the phase is completed no request changes it
C10_CompletedIsTerminal ==
    [][\A g \in GameIds :
        (IsDoc(games[g]) /\ games[g].status = "completed" /\ IsDoc(games'[g]))
        => games'[g].status = "completed"]_vars

\* this step belongs to the ready request in slot s: its save or its continuation
ReadyStep(s) == reqs[s].op = "ready" /\ reqs'[s] # reqs[s]

\* C11: a ready request never acts on a session that is not waiting: no step
\* of it re-initialises the board, so every stone of an active or completed
\* session stays where it is
C11_ReadyKeepsStones ==
    [][\A s \in Slots :
        LET g == reqs[s].g
        IN  (/\ ReadyStep(s)
             /\ IsDoc(games[g])
             /\ IsDoc(games'[g])
             /\ games[g].status # "waiting")
            => \A c \in Cells :
                    StoneAt(games[g].board, c) # null
                    => StoneAt(games'[g].board, c) = StoneAt(games[g].board, c)]_vars

\* the answer that ends the request in slot s is sent by this step
Answered(s) == reqs[s].pc # "idle" /\ reqs'[s].pc = "idle"

EmptyBoard(game) ==
    /\ DOMAIN game.board = 0..(game.boardSize - 1)
    /\ \A y \in DOMAIN game.board :
            /\ DOMAIN game.board[y] = 0..(game.boardSize - 1)
            /\ \A x \in DOMAIN game.board[y] : game.board[y][x].stone = null

\* C12: the ready request whose save makes the second seated player of a
\* waiting session ready ends, in that same request, with the session active,
\* an all-empty board of the configured size and black to move; a step of a
\* ready request that leaves a seat empty or not ready keeps the phase waiting
C12_SecondReadyStarts ==
    [][\A s \in Slots :
        LET g == reqs[s].g
        IN  /\ (reqs[s].op = "ready" /\ reqs[s].lastReady /\ Answered(s))
                => /\ resp'.code = 200
                   /\ resp'.game.status = "active"
                   /\ resp'.game.currentTurn = "black"
                   /\ EmptyBoard(resp'.game)
            /\ (/\ ReadyStep(s)
                /\ IsDoc(games[g])
                /\ IsDoc(games'[g])
                /\ games[g].status = "waiting"
                /\ ~RosterReady(games'[g]))
                => games'[g].status = "waiting"]_vars

\* C13: a session whose phase is active has exactly two seated players, both
\* of them ready
C13_ActiveHasReadyPair ==
    \A g \in GameIds :
        (IsDoc(games[g]) /\ games[g].status = "active") => RosterReady(games[g])

\* C14: the first seat of a session is its creator's and is black, the second
\* seat is white
C14_SeatColours ==
    \A g \in GameIds :
        IsDoc(games[g]) =>
            /\ Len(games[g].players) >= 1
            /\ games[g].players[1].playerId = games[g].createdBy
            /\ games[g].players[1].color = "black"
            /\ Len(games[g].players) >= 2 => games[g].players[2].color = "white"

\* C14 witness: a second player was seated by a join request
C14_Witness ==
    /\ IsDoc(games["g1"])
    /\ Len(games["g1"].players) >= 2
    /\ games["g1"].players[2].playerId # games["g1"].createdBy

\* C15: a session never has more than two seated players
C15_AtMostTwoSeats ==
    \A g \in GameIds : IsDoc(games[g]) => Len(games[g].players) <= 2

\* C16: no player identifier holds two seats of one session
C16_NoDoubleSeat ==
    \A g \in GameIds :
        IsDoc(games[g]) =>
            \A i, j \in 1..Len(games[g].players) :
                i # j => games[g].players[i].playerId # games[g].players[j].playerId

\* this step is the save of the move, pass or resign request in slot s
PlaySaved(s) ==
    /\ reqs[s].op \in {"move", "pass", "resign"}
    /\ reqs[s].pc = "write"
    /\ reqs'[s].pc = "done"

\* this step passes the move, pass or resign request in slot s through its checks
PlayAdmitted(s) ==
    /\ reqs[s].pc = "idle"
    /\ reqs'[s].pc = "write"
    /\ reqs'[s].op \in {"move", "pass", "resign"}

\* C17: move, pass and resign requests are accepted only in phase active: one
\* passes its checks only on an active session, and its effect is stored only
\* in an active session
C17_PlayOnlyWhileActive ==
    [][\A s \in Slots :
        /\ PlayAdmitted(s) => games[reqs'[s].g].status = "active"
        /\ PlaySaved(s) => games[reqs[s].g].status = "active"]_vars

\* C18: only the player bound to the current turn colour moves or passes: a
\* move or pass request passes its checks only when its player's colour is on
\* turn, and every stored ply is of the colour that was on turn
C18_OnlyOnTurn ==
    [][/\ \A s \in Slots :
            (PlayAdmitted(s) /\ reqs'[s].op \in {"move", "pass"}) =>
                LET doc == games[reqs'[s].g]
                IN  doc.players[SeatOf(doc, reqs'[s].p)].color = doc.currentTurn
       /\ \A g \in GameIds :
            PlyStored(g) => LastEntry(games'[g]).color = games[g].currentTurn]_vars

Stones(g) == {c \in Cells : StoneAt(games[g].board, c) # null}

C21_PassFrame ==
    [][\A g \in GameIds :
        PassAccepted(g) =>
            LET ps == LastEntry(games'[g])
            IN  /\ games'[g].moveHistory = Append(games[g].moveHistory, ps)
                /\ ps.color = games[g].currentTurn
                /\ games'[g].consecutivePasses = games[g].consecutivePasses + 1
                /\ games'[g].currentTurn = Opp(games[g].currentTurn)
                /\ games'[g].board = games[g].board
                /\ games'[g].moveCount = games[g].moveCount]_vars

\* C22: a rejected move is answered with the reason of its rejection: the
\* answer to a move that makeMove refuses as out of turn, out of bounds or
\* occupied carries that reason and is not the generic server error
C22_SpecificMoveReason ==
    \A g \in GameIds, p \in Players, x \in CoordInput, y \in CoordInput :
        (/\ IsDoc(games[g])
         /\ games[g].status = "active"
         /\ SeatOf(games[g], p) # 0) =>
            LET e == makeMoveError(games[g], x, y,
                                   games[g].players[SeatOf(games[g], p)].color)
                a == MoveCheck(games[g], p, x, y)
            IN  e # "ok" => (a.code >= 400 /\ a.error = e /\ a.error # ServerError("move"))

\* this step emits the event of a save of the request in slot s
Announces(s) ==
    /\ reqs[s].pc \in {"done", "ready"}
    /\ reqs'[s].pc # reqs[s].pc
    /\ emitted' # NoEvent

\* C23: the events of a session are emitted in the order of their saves: when
\* a request emits the event of its save, no earlier save on that session is
\* still waiting for its event
C23_EventsInCommitOrder ==
    [][\A s \in Slots : Announces(s) => reqs[s].behind = {}]_vars

\* the request in slot s is a join, ready, move, pass or resign request
IsSessionCall(s) == reqs[s].op \in {"join", "ready", "move", "pass", "resign"}

\* C24: a successful join, ready, move, pass or resign call emits exactly one
\* event and a rejected one emits none: every event of such a call is emitted
\* by the step that answers it with success, and that step emits one
C24_OneEventPerCall ==
    [][\A s \in Slots :
        /\ (IsSessionCall(s) /\ reqs'[s] # reqs[s] /\ emitted' # NoEvent)
            => (Answered(s) /\ resp'.code = 200)
        /\ (IsSessionCall(s) /\ Answered(s) /\ resp'.code = 200)
            => emitted' # NoEvent]_vars

\* this step answers a snapshot read of session g: a success answer that
\* carries a snapshot and comes with no event
ReadOf(g) ==
    /\ resp'.code = 200
    /\ resp'.game # NoGame
    /\ resp'.game.gameId = g
    /\ emitted' = NoEvent

\* C25: a snapshot read changes nothing and its answer is the snapshot of the
\* stored session, so that two reads with no change of the session between
\* them return the same result
C25_ReadIsPure ==
    [][\A g \in GameIds :
        ReadOf(g) => /\ games' = games
                     /\ reqs' = reqs
                     /\ ledger' = ledger
                     /\ IsDoc(games[g])
                     /\ resp'.game = getGameState(games[g])]_vars

\* a read has just answered with the snapshot of a session in play whose
\* history holds an entry
C25_Witness ==
    /\ resp.code = 200
    /\ resp.game # NoGame
    /\ emitted = NoEvent
    /\ IsDoc(games["g1"])
    /\ games["g1"].status = "active"
    /\ Len(games["g1"].moveHistory) > 0
    /\ resp.game = getGameState(games["g1"])

\* the player of match m who holds colour c
SeatHolder(m, c) ==
    (CHOOSE i \in DOMAIN m.players : m.players[i].color = c).playerId

\* C26: a match ended with final scores records as winner the side with the
\* strictly higher score and as margin the absolute difference of the scores;
\* with equal scores it records a draw with no winner
C26_ResultFromScores ==
    \A id \in MatchIds :
        (match[id] # NoMatch /\ match[id].status = "completed") =>
            LET r == match[id].result
                b == r.finalScore.black
                w == r.finalScore.white
            IN  /\ r.margin = Abs(b - w)
                /\ b > w => (r.winnerColor = "black"
                                /\ r.winner = SeatHolder(match[id], "black"))
                /\ w > b => (r.winnerColor = "white"
                                /\ r.winner = SeatHolder(match[id], "white"))
                /\ b = w => (r.winnerColor \notin Colors /\ r.winner \notin Players)

\* the liberty count stored on intersection c of the board
StoredLiberties(board, c) == board[c[2]][c[1]].liberties

\* C27: on every initialised board the liberty count stored on each
\* intersection that bears a stone is the number of liberties of the stone's
\* group
C27_StoredLibertiesActual ==
    \A g \in GameIds :
        (IsDoc(games[g]) /\ DOMAIN games[g].board = Coord) =>
            \A c \in Cells :
                StoneAt(games[g].board, c) # null =>
                    StoredLiberties(games[g].board, c) = LibertyCount(games[g].board, c)

\* this step is the insert of a create request for the id g
CreateTaken(g) ==
    \E s \in Slots : /\ reqs[s] = Idle
                     /\ reqs'[s] # Idle
                     /\ reqs'[s].op = "create"
                     /\ reqs'[s].g = g

Addressed(g) ==
    \E s \in Slots :
        /\ reqs'[s] # reqs[s]
        /\ IF reqs[s] = Idle THEN reqs'[s].g = g ELSE reqs[s].g = g

\* C29: a request to one session leaves every other session unchanged: a step
\* that changes the stored document of session g is a step of a request
\* addressed to g
C29_SessionsIsolated ==
    [][\A g \in GameIds : games'[g] # games[g] => Addressed(g)]_vars

\* two sessions are stored and differ: g1 is in play with a stored ply while
\* g2 is still waiting
C29_Witness ==
    /\ IsDoc(games["g1"])
    /\ IsDoc(games["g2"])
    /\ games["g1"].status = "active"
    /\ Len(games["g1"].moveHistory) > 0
    /\ games["g2"].status = "waiting"

\* this step is the database write of the abandon (delete) request in slot s
AbandonTaken(s) == Pending(s, "delete", "write") /\ reqs'[s].pc = "done"

\* C30: an abandon request moves the session to the terminal phase abandoned
\* and leaves its players as they were (no scoring), and the session stays
\* stored under its id in that phase
C30_AbandonKeepsSession ==
    [][\A s \in Slots :
        AbandonTaken(s) =>
            LET g == reqs[s].g
            IN  /\ IsDoc(games'[g])
                /\ games'[g].status = "abandoned"
                /\ games'[g].players = games[g].players]_vars

\* the colour that places ply number i of a game (black places the first)
ColourOfPly(i) == IF i % 2 = 1 THEN "black" ELSE "white"

\* C32: in every stored session in play the colours of the history entries
\* alternate starting with black, and black is to move exactly when the
\* history has an even number of entries
C32_HistoryAlternates ==
    \A g \in GameIds :
        (IsDoc(games[g]) /\ games[g].status = "active") =>
            /\ \A i \in DOMAIN games[g].moveHistory :
                    games[g].moveHistory[i].color = ColourOfPly(i)
            /\ games[g].currentTurn = ColourOfPly(Len(games[g].moveHistory) + 1)

\* the number of pass entries at the end of history h, since its last stone
\* move
TrailingPasses(h) ==
    LET stones == {i \in DOMAIN h : ~h[i].pass}
    IN  Cardinality({i \in DOMAIN h : \A j \in stones : j < i})

\* C33: in every stored session the consecutive-pass counter is the number of
\* pass entries at the end of the move history and is at most 2
C33_PassCounterExact ==
    \A g \in GameIds :
        IsDoc(games[g]) =>
            /\ games[g].consecutivePasses = TrailingPasses(games[g].moveHistory)
            /\ games[g].consecutivePasses <= 2

\* the seats of doc whose player holds colour c
SeatsOfColour(doc, c) == {i \in 1..Len(doc.players) : doc.players[i].color = c}

\* the seated players of doc are distinct players
DistinctPlayers(doc) ==
    \A i, j \in 1..Len(doc.players) :
        i # j => doc.players[i].playerId # doc.players[j].playerId

\* C34: a stored session whose seats were taken by distinct players has at
\* most two seated players, exactly one of them black and at most one white
C34_SeatsDistinctColours ==
    \A g \in GameIds :
        (IsDoc(games[g]) /\ DistinctPlayers(games[g])) =>
            /\ Len(games[g].players) <= 2
            /\ Cardinality(SeatsOfColour(games[g], "black")) = 1
            /\ Cardinality(SeatsOfColour(games[g], "white")) <= 1

\* the ids of the players of match m
MatchPlayers(m) == {m.players[i].playerId : i \in DOMAIN m.players}

\* C36: a match is ended at most once: a step taken while the match is
\* completed changes neither its stored record nor the statistics of any
\* player
C36_EndedOnce ==
    [][\A id \in MatchIds :
        (match[id] # NoMatch /\ match[id].status = "completed") =>
            /\ match'[id] = match[id]
            /\ \A p \in Players : accounts'[p] = accounts[p]]_vars

\* this step is a successful end request on match id
EndSucceeded(id) ==
    /\ match[id] # NoMatch
    /\ resp'.code = 200
    /\ resp'.error = "ok"

\* C37: after a successful end request the recorded winner is a player of the
\* match, that player has one more game played and won, the other player of
\* the match has one more game played and lost, and the statistics of every
\* player outside the match are unchanged
C37_WinnerOfTheMatch ==
    [][\A id \in MatchIds :
        EndSucceeded(id) =>
            LET w == match'[id].result.winner
            IN  /\ w \in MatchPlayers(match[id])
                /\ \A p \in Players :
                    accounts'[p].stats =
                        IF p = w THEN updateStats(accounts[p].stats, "win", 0)
                        ELSE IF p \in MatchPlayers(match[id])
                        THEN updateStats(accounts[p].stats, "loss", 0)
                        ELSE accounts[p].stats]_vars

\* C35: the games a player has played are the games won, lost and drawn, and
\* bestWinStreak is the largest value currentStreak has held, hence at least
\* currentStreak
C35_StatsConsistent ==
    \A p \in Players :
        accounts[p] # NoPlayer =>
            LET st == accounts[p].stats
            IN  /\ st.gamesPlayed = st.gamesWon + st.gamesLost + st.gamesDrawn
                /\ st.bestWinStreak = accounts[p].peak
                /\ st.bestWinStreak >= st.currentStreak

\* p1 has won, lost and drawn a game and its best streak, of two games at
\* least, is broken
C35_Witness ==
    LET st == accounts["p1"].stats
    IN  /\ st.gamesWon >= 2
        /\ st.gamesLost >= 1
        /\ st.gamesDrawn >= 1
        /\ st.bestWinStreak >= 2
        /\ st.currentStreak < st.bestWinStreak

\* C31: no answer of the account routes carries the player's password,
\* hashed or plain
C31_NoPasswordInAnswer == "password" \notin DOMAIN resp.player

\* the caller is a registered player whose rank is Master
CallerIsMaster(caller) ==
    accounts[caller] # NoPlayer /\ accounts[caller].rank = "Master"

\* C38: the rank of a stored player changes only by a rank update whose
\* caller is a Master, a newly registered player is a Beginner, a match is
\* removed only by a deletion whose caller is a Master, and a refused request
\* leaves the players and the matches as they were
C38_OnlyMasterChangesRank ==
    [][/\ \A p \in Players :
            (accounts[p] # NoPlayer /\ accounts'[p].rank # accounts[p].rank) =>
                \E caller \in Players, rank \in RankInput :
                    RankUpdate(caller, p, rank) /\ CallerIsMaster(caller)
       /\ \A p \in Players :
            (accounts[p] = NoPlayer /\ accounts'[p] # NoPlayer) =>
                accounts'[p].rank = "Beginner"
       /\ \A id \in MatchIds :
            match'[id] # match[id] =>
                \E caller \in Players : MatchDelete(caller, id) /\ CallerIsMaster(caller)
       /\ resp'.code >= 400 => (accounts' = accounts /\ match' = match)]_vars

\* a rank update or a match deletion by a registered Beginner has just been
\* refused while p1 and p2 are Beginners and the Master p3 and match m1 are
\* stored
C38_Witness ==
    /\ resp = Forbidden
    /\ accounts["p1"] # NoPlayer
    /\ accounts["p1"].rank = "Beginner"
    /\ accounts["p2"] # NoPlayer
    /\ accounts["p2"].rank = "Beginner"
    /\ accounts["p3"].rank = "Master"
    /\ match["m1"] # NoMatch

====
